---- MODULE Spec2Model ----
\* A model of agama-dumper.ts: the tool logs in to an Agama server, probes the
\* zfcp/dasd capabilities, downloads every GET endpoint declared in a directory
\* of OpenAPI documents, resolves the parameterised endpoints, downloads the
\* extra and the localized endpoints and prints the collected data as JSON.
\*
\* Strings are sequences of one-character strings, so that the string
\* operations of the source (replace, match, split, includes, concatenation,
\* encodeURIComponent) are computed rather than assumed.
EXTENDS Integers, Sequences, FiniteSets, TLC

\* ---------------------------------------------------------------------------
\* String constants of the program
\* ---------------------------------------------------------------------------

\* login(): the login endpoint
authPath ==
    <<"/", "a", "p", "i", "/", "a", "u", "t", "h">>

\* readOpenAPI(): the storage argument of the first supported() call
zfcpStorage ==
    <<"z", "f", "c", "p">>

\* readOpenAPI(): the storage argument of the second supported() call
dasdStorage ==
    <<"d", "a", "s", "d">>

\* supported(): the text before ${storage} in the probe path
storagePrefix ==
    <<"/", "a", "p", "i", "/", "s", "t", "o", "r", "a", "g", "e", "/">>

\* supported(): the text after ${storage} in the probe path
supportedSuffix ==
    <<"/", "s", "u", "p", "p", "o", "r", "t", "e", "d">>

\* specialPaths(): connectionPath
connectionPath ==
    <<"/", "a", "p", "i", "/", "n", "e", "t", "w", "o", "r", "k", "/", "c", "o", "n", "n", "e", "c", "t", "i", "o", "n", "s">>

\* specialPaths(): storageParamsPath
storageParamsPath ==
    <<"/", "a", "p", "i", "/", "s", "t", "o", "r", "a", "g", "e", "/", "p", "r", "o", "d", "u", "c", "t", "/", "p", "a", "r", "a", "m", "s">>

\* specialPaths(): volumePath
volumePath ==
    <<"/", "a", "p", "i", "/", "s", "t", "o", "r", "a", "g", "e", "/", "p", "r", "o", "d", "u", "c", "t", "/", "v", "o", "l", "u", "m", "e", "_", "f", "o", "r">>

\* specialPaths(): the query text appended to volumePath
mountPathQuery ==
    <<"?", "m", "o", "u", "n", "t", "_", "p", "a", "t", "h", "=">>

\* sanityCheck(): the key of the software configuration
softwareConfigPath ==
    <<"/", "a", "p", "i", "/", "s", "o", "f", "t", "w", "a", "r", "e", "/", "c", "o", "n", "f", "i", "g">>

\* switchLanguage(): the endpoint of the PATCH
l10nConfigPath ==
    <<"/", "a", "p", "i", "/", "l", "1", "0", "n", "/", "c", "o", "n", "f", "i", "g">>

\* localizedPaths(): the discovery path
languagesPath ==
    <<"/", "l", "a", "n", "g", "u", "a", "g", "e", "s", ".", "j", "s", "o", "n">>

\* readOpenAPI(): the regular expression /zfcp/
zfcpMarker ==
    <<"z", "f", "c", "p">>

\* readOpenAPI(): the regular expression /dasd/
dasdMarker ==
    <<"d", "a", "s", "d">>

\* localizedPaths(): the suffix of the locale identifier
utf8Suffix ==
    <<".", "U", "T", "F", "-", "8">>

\* the text JavaScript concatenates for the value undefined
undefinedText ==
    <<"u", "n", "d", "e", "f", "i", "n", "e", "d">>

\* the paths readOpenAPI() ignores
skip ==
    << <<"/", "a", "p", "i", "/", "p", "r", "o", "d", "u", "c", "t", "/", "i", "s", "s", "u", "e", "s", "/", "p", "r", "o", "d", "u", "c", "t">>,
       <<"/", "a", "p", "i", "/", "n", "e", "t", "w", "o", "r", "k", "/", "c", "o", "n", "n", "e", "c", "t", "i", "o", "n", "s", "/", ":", "i", "d">>,
       <<"/", "a", "p", "i", "/", "s", "t", "o", "r", "a", "g", "e", "/", "p", "r", "o", "d", "u", "c", "t", "/", "v", "o", "l", "u", "m", "e", "_", "f", "o", "r">> >>

\* the extra paths missing in the OpenAPI data
extra ==
    << <<"/", "a", "p", "i", "/", "s", "o", "f", "t", "w", "a", "r", "e", "/", "i", "s", "s", "u", "e", "s", "/", "p", "r", "o", "d", "u", "c", "t">> >>

\* the paths that return localized data
localized ==
    << <<"/", "a", "p", "i", "/", "l", "1", "0", "n", "/", "k", "e", "y", "m", "a", "p", "s">>,
       <<"/", "a", "p", "i", "/", "l", "1", "0", "n", "/", "l", "o", "c", "a", "l", "e", "s">>,
       <<"/", "a", "p", "i", "/", "l", "1", "0", "n", "/", "t", "i", "m", "e", "z", "o", "n", "e", "s">>,
       <<"/", "a", "p", "i", "/", "s", "o", "f", "t", "w", "a", "r", "e", "/", "p", "a", "t", "t", "e", "r", "n", "s">>,
       <<"/", "a", "p", "i", "/", "s", "o", "f", "t", "w", "a", "r", "e", "/", "p", "r", "o", "d", "u", "c", "t", "s">>,
       <<"/", "a", "p", "i", "/", "s", "t", "o", "r", "a", "g", "e", "/", "d", "e", "v", "i", "c", "e", "s", "/", "r", "e", "s", "u", "l", "t">>,
       <<"/", "a", "p", "i", "/", "s", "t", "o", "r", "a", "g", "e", "/", "p", "r", "o", "p", "o", "s", "a", "l", "/", "a", "c", "t", "i", "o", "n", "s">>,
       <<"/", "a", "p", "i", "/", "u", "s", "e", "r", "s", "/", "i", "s", "s", "u", "e", "s">> >>

\* ---------------------------------------------------------------------------
\* The inputs of a run: the OpenAPI documents of the directory and the answers
\* of the server
\* ---------------------------------------------------------------------------

\* the largest number of *.json files in the OpenAPI directory
MaxFiles == 2

\* an OpenAPI document of the storage service: a probe path, a path with both
\* markers, a dasd path, the parameters and a path of the skip list
storageDoc ==
    [ok |-> TRUE, paths |-> <<
        [name |-> <<"/", "a", "p", "i", "/", "s", "t", "o", "r", "a", "g", "e", "/", "z", "f", "c", "p", "/", "s", "u", "p", "p", "o", "r", "t", "e", "d">>,
         get |-> TRUE],
        [name |-> <<"/", "a", "p", "i", "/", "s", "t", "o", "r", "a", "g", "e", "/", "z", "f", "c", "p", "/", "d", "a", "s", "d">>,
         get |-> TRUE],
        [name |-> <<"/", "a", "p", "i", "/", "s", "t", "o", "r", "a", "g", "e", "/", "d", "a", "s", "d", "/", "d", "e", "v", "i", "c", "e", "s">>,
         get |-> TRUE],
        [name |-> <<"/", "a", "p", "i", "/", "s", "t", "o", "r", "a", "g", "e", "/", "p", "r", "o", "d", "u", "c", "t", "/", "p", "a", "r", "a", "m", "s">>,
         get |-> TRUE],
        [name |-> <<"/", "a", "p", "i", "/", "s", "t", "o", "r", "a", "g", "e", "/", "p", "r", "o", "d", "u", "c", "t", "/", "v", "o", "l", "u", "m", "e", "_", "f", "o", "r">>,
         get |-> TRUE] >>]

\* an OpenAPI document with the connections, a path of the skip list, a path
\* without a GET operation, the software configuration and a plain path
networkDoc ==
    [ok |-> TRUE, paths |-> <<
        [name |-> <<"/", "a", "p", "i", "/", "n", "e", "t", "w", "o", "r", "k", "/", "c", "o", "n", "n", "e", "c", "t", "i", "o", "n", "s">>,
         get |-> TRUE],
        [name |-> <<"/", "a", "p", "i", "/", "n", "e", "t", "w", "o", "r", "k", "/", "c", "o", "n", "n", "e", "c", "t", "i", "o", "n", "s", "/", ":", "i", "d">>,
         get |-> TRUE],
        [name |-> <<"/", "a", "p", "i", "/", "n", "e", "t", "w", "o", "r", "k", "/", "s", "t", "a", "t", "e">>,
         get |-> FALSE],
        [name |-> <<"/", "a", "p", "i", "/", "s", "o", "f", "t", "w", "a", "r", "e", "/", "c", "o", "n", "f", "i", "g">>,
         get |-> TRUE],
        [name |-> <<"/", "a", "p", "i", "/", "l", "1", "0", "n", "/", "c", "o", "n", "f", "i", "g">>,
         get |-> TRUE] >>]

\* an OpenAPI document with a localized path and its variant with a trailing
\* slash, the plain path of networkDoc and its variant, and the variant of a
\* path of the skip list
l10nDoc ==
    [ok |-> TRUE, paths |-> <<
        [name |-> <<"/", "a", "p", "i", "/", "l", "1", "0", "n", "/", "k", "e", "y", "m", "a", "p", "s">>,
         get |-> TRUE],
        [name |-> <<"/", "a", "p", "i", "/", "l", "1", "0", "n", "/", "k", "e", "y", "m", "a", "p", "s", "/">>,
         get |-> TRUE],
        [name |-> <<"/", "a", "p", "i", "/", "l", "1", "0", "n", "/", "c", "o", "n", "f", "i", "g">>,
         get |-> TRUE],
        [name |-> <<"/", "a", "p", "i", "/", "l", "1", "0", "n", "/", "c", "o", "n", "f", "i", "g", "/">>,
         get |-> TRUE],
        [name |-> <<"/", "a", "p", "i", "/", "p", "r", "o", "d", "u", "c", "t", "/", "i", "s", "s", "u", "e", "s", "/", "p", "r", "o", "d", "u", "c", "t", "/">>,
         get |-> TRUE] >>]

\* a file that is not valid JSON: JSON.parse throws on it
brokenDoc ==
    [ok |-> FALSE, paths |-> << >>]

Docs ==
    {storageDoc, networkDoc, l10nDoc, brokenDoc}

\* the lists of files globSync can return: some files of the directory, each
\* once, in any order
FileLists ==
    {f \in UNION {[1..n -> Docs] : n \in 0..MaxFiles} :
        \A i, j \in DOMAIN f : f[i] = f[j] => i = j}

\* JSON values: every value is a record with a tag t
Null ==
    [t |-> "null"]

Bool(b) ==
    [t |-> "bool", b |-> b]

Json ==
    [t |-> "json"]

\* a connection entry with an id, and the entry null
Connection(id) ==
    [e |-> "obj", hasId |-> TRUE, id |-> id]

NullEntry ==
    [e |-> "null", hasId |-> FALSE, id |-> << >>]

\* a connection entry without an id
NoIdEntry ==
    [e |-> "obj", hasId |-> FALSE, id |-> << >>]

\* the answers of the server that matter to specialPaths() and sanityCheck();
\* an answer null takes the branches an absent key takes
ConnectionResponses ==
    {[t |-> "list", items |-> <<Connection(<<"e", "t", "h", "0">>), Connection(<< >>), NoIdEntry, Connection(<<"e", "t", "h", "1">>)>>],
     [t |-> "list", items |-> <<Connection(<<"e", "t", "h", "0">>), NullEntry>>]}

StorageParamsResponses ==
    {[t |-> "params", hasMountPoints |-> FALSE, mountPoints |-> << >>],
     [t |-> "params", hasMountPoints |-> TRUE, mountPoints |-> << >>],
     [t |-> "params", hasMountPoints |-> TRUE, mountPoints |-> <<<<"/">>, <<"/", "h", "o", "m", "e">>>>]}

SoftwareConfigResponses ==
    {[t |-> "config", product |-> TRUE], [t |-> "config", product |-> FALSE]}

\* the keys of languages.json, in the order of the document
LanguagesResponses ==
    {Null,
     [t |-> "languages", tags |-> << >>],
     [t |-> "languages", tags |-> <<<<"e", "n", "-", "U", "S">>, <<"d", "e", "-", "D", "E">>>>],
     [t |-> "languages", tags |-> <<<<"z", "h", "-", "H", "a", "n", "s", "-", "C", "N">>>>],
     [t |-> "languages", tags |-> <<<<"c", "s">>>>],
     [t |-> "languages", tags |-> << << >> >>]}

\* a path the server may answer with a content type that is not
\* application/json: api() resolves to null then
dasdDevicesPath ==
    <<"/", "a", "p", "i", "/", "s", "t", "o", "r", "a", "g", "e", "/", "d", "a", "s", "d", "/", "d", "e", "v", "i", "c", "e", "s">>

\* the locales the server can have before the run
InitialLocales ==
    {<<"C">>}

\* ---------------------------------------------------------------------------
\* String and value operations of the source
\* ---------------------------------------------------------------------------

\* an apiDownload() that requests the path as it is given
KeepTrailingSlash(path) ==
    path

\* path.replace(/\/$/, ""): the path without one trailing slash
RemoveTrailingSlash(path) ==
    IF Len(path) > 0 /\ path[Len(path)] = "/"
    THEN SubSeq(path, 1, Len(path) - 1)
    ELSE path

\* name.match(/marker/): the marker occurs somewhere in the name
Matches(name, marker) ==
    \E i \in 1..(Len(name) - Len(marker) + 1) :
        \A j \in DOMAIN marker : name[i + j - 1] = marker[j]

\* list.includes(name)
Includes(list, name) ==
    \E i \in DOMAIN list : list[i] = name

\* the index of the first "-" of s at or after from, 0 when there is none
HyphenFrom(s, from) ==
    IF \E i \in from..Len(s) : s[i] = "-"
    THEN CHOOSE i \in from..Len(s) :
             s[i] = "-" /\ \A j \in from..(i - 1) : s[j] # "-"
    ELSE 0

\* language.split("-", 2): at most the first two pieces between hyphens
SplitLanguage(language) ==
    LET h1 == HyphenFrom(language, 1)
        h2 == HyphenFrom(language, h1 + 1)
    IN  IF h1 = 0
        THEN <<language>>
        ELSE <<SubSeq(language, 1, h1 - 1),
               SubSeq(language, h1 + 1, IF h2 = 0 THEN Len(language) ELSE h2 - 1)>>

\* lang + "_" + country + ".UTF-8", country being undefined without a hyphen
UiLanguage(language) ==
    LET pieces == SplitLanguage(language)
        lang == pieces[1]
        country == IF Len(pieces) >= 2 THEN pieces[2] ELSE undefinedText
    IN  lang \o <<"_">> \o country \o utf8Suffix

\* encodeURIComponent of one character: the reserved characters the model
\* uses are escaped, letters and digits are kept
EncodeChar(c) ==
    CASE c = "/" -> <<"%", "2", "F">>
      [] c = ":" -> <<"%", "3", "A">>
      [] c = "?" -> <<"%", "3", "F">>
      [] c = "=" -> <<"%", "3", "D">>
      [] c = "%" -> <<"%", "2", "5">>
      [] c = " " -> <<"%", "2", "0">>
      [] OTHER -> <<c>>

RECURSIVE EncodeURIComponent(_)
EncodeURIComponent(s) ==
    IF s = << >> THEN << >>
    ELSE EncodeChar(Head(s)) \o EncodeURIComponent(Tail(s))

\* `/api/storage/${storage}/supported`
SupportedPath(storage) ==
    storagePrefix \o storage \o supportedSuffix

\* connectionPath + "/" + id
ConnectionChildPath(id) ==
    connectionPath \o <<"/">> \o id

\* volumePath + "?mount_path=" + encodeURIComponent(mountPoint)
VolumeForPath(mountPoint) ==
    volumePath \o mountPathQuery \o EncodeURIComponent(mountPoint)

\* the value of a missing property
Undefined ==
    [t |-> "undefined"]

\* an object built by the program: its entries in insertion order
Object(entries) ==
    [t |-> "obj", entries |-> entries]

\* JavaScript truthiness of a value
Truthy(v) ==
    /\ v.t \notin {"null", "undefined"}
    /\ (v.t = "bool" => v.b)

\* key in obj
Has(entries, key) ==
    \E i \in DOMAIN entries : entries[i].k = key

\* obj[key]
Get(entries, key) ==
    IF Has(entries, key)
    THEN entries[CHOOSE i \in DOMAIN entries : entries[i].k = key].v
    ELSE Undefined

\* an assignment that keeps the value of a key that exists
PutFirstWins(entries, key, value) ==
    IF Has(entries, key)
    THEN entries
    ELSE Append(entries, [k |-> key, v |-> value])

\* obj[key] = value: an existing key keeps its place, a new key goes last
Put(entries, key, value) ==
    IF Has(entries, key)
    THEN [i \in DOMAIN entries |->
             IF entries[i].k = key THEN [k |-> key, v |-> value] ELSE entries[i]]
    ELSE Append(entries, [k |-> key, v |-> value])

\* the keys of an object, in insertion order
Keys(entries) ==
    [i \in DOMAIN entries |-> entries[i].k]

\* the language argument of apiDownload: absent, or one language tag
NoLanguage ==
    << >>

\* apiDownload(), the part after the await: the response goes below the
\* language when one is given and is not the empty string, to the top otherwise
StoreResponse(d, requestPath, res, language) ==
    IF language # NoLanguage /\ language[1] # << >>
    THEN LET tag == language[1]
             d1 == IF ~Truthy(Get(d, tag)) THEN Put(d, tag, Object(<< >>)) ELSE d
         IN  Put(d1, tag, Object(Put(Get(d1, tag).entries, requestPath, res)))
    ELSE Put(d, requestPath, res)

\* the condition without the two capability checks
ShouldSkipNoCapability(name, zfcpFlag, dasdFlag) ==
    \/ Includes(skip, name)
    \/ Includes(localized, name)

\* the condition without the skip list
ShouldSkipNoSkipList(name, zfcpFlag, dasdFlag) ==
    \/ Includes(localized, name)
    \/ (~Truthy(zfcpFlag) /\ Matches(name, zfcpMarker))
    \/ (~Truthy(dasdFlag) /\ Matches(name, dasdMarker))

\* readOpenAPI(): the condition under which a declared GET path is skipped
ShouldSkip(name, zfcpFlag, dasdFlag) ==
    \/ Includes(skip, name)
    \/ Includes(localized, name)
    \/ (~Truthy(zfcpFlag) /\ Matches(name, zfcpMarker))
    \/ (~Truthy(dasdFlag) /\ Matches(name, dasdMarker))

\* the answers the server can give to a successful GET of a path
Responses(path) ==
    CASE path \in {SupportedPath(zfcpStorage), SupportedPath(dasdStorage)} ->
            {Bool(TRUE), Bool(FALSE)}
      [] path = connectionPath -> ConnectionResponses
      [] path = storageParamsPath -> StorageParamsResponses
      [] path = softwareConfigPath -> SoftwareConfigResponses
      [] path = languagesPath -> LanguagesResponses
      [] path = dasdDevicesPath -> {Json, Null}
      [] OTHER -> {Json}

\* ---------------------------------------------------------------------------
\* The state of a run
\* ---------------------------------------------------------------------------

VARIABLES
    files,         \* the documents of the OpenAPI directory, in globSync order
    uiLocale,      \* the UI locale of the server
    pc,            \* the position of the run
    inflight,      \* the request the run awaits: << >> or one request
    token,         \* the token login() resolved to
    zfcp,          \* the value supported() returned for zfcp
    dasd,          \* the value supported() returned for dasd
    data,          \* the collected data: entries in insertion order
    fileIdx,       \* readOpenAPI(): the position in files
    pathIdx,       \* readOpenAPI(): the position in the paths of the file, 0 before the file is read
    connIdx,       \* specialPaths(): the position in networkConnections
    mountIdx,      \* specialPaths(): the position in mountPoints
    extraIdx,      \* extraPaths(): the position in extra
    languages,     \* localizedPaths(): the keys of the languages response
    langIdx,       \* localizedPaths(): the position in languages
    locIdx,        \* localizedPaths(): the position in localized
    log,           \* history: every request issued, in order
    outFile,       \* the contents written to the output file, in order
    stdout,        \* the texts printed on the standard output, in order
    sanityWarned,  \* sanityCheck() printed its warning
    exitStatus,    \* the exit status of the process, NotExited while it runs
    failedFrom,    \* the position at which the run failed
    failure        \* the kind of the failure

vars ==
    <<files, uiLocale, pc, inflight, token, zfcp, dasd, data, fileIdx,
      pathIdx, connIdx, mountIdx, extraIdx, languages, langIdx, locIdx, log,
      outFile, stdout, sanityWarned, exitStatus, failedFrom, failure>>

inputVars ==
    <<files>>

loopVars ==
    <<fileIdx, pathIdx, connIdx, mountIdx, extraIdx, languages, langIdx, locIdx>>

outputVars ==
    <<outFile, stdout, sanityWarned>>

endVars ==
    <<exitStatus, failedFrom, failure>>

\* process.exit(1) in the catch of the main function
ExitFailure == 1

\* the exit status of Node.js after an uncaught exception or an unhandled
\* rejection (the re-throw of the debug mode)
NodeErrorExit == 1

\* the exit status of a run that returned from readOpenAPI()
ExitSuccess == 0

NotExited == -1

\* the stage a position belongs to
Stage(p) ==
    CASE p = "volumes" -> "special"
      [] p \in {"languages", "switch"} -> "localized"
      [] OTHER -> p

\* a request: its method and path, the path template it was made for, the
\* stage and the language it belongs to, the body of a PATCH, the locale of
\* the server when it is sent and, once it is answered, the outcome and the
\* value the promise resolved to
Request(method, path, tmpl, language, body) ==
    [method |-> method, path |-> path, tmpl |-> tmpl, stage |-> Stage(pc),
     language |-> language, body |-> body, locale |-> uiLocale,
     outcome |-> "pending", res |-> Undefined]

\* a request sent without awaiting the promise of the previous one
SendWithoutAwait(req) ==
    /\ inflight' = Append(inflight, req)
    /\ log' = Append(log, req)

\* a request is sent: the run awaits its promise
Send(req) ==
    /\ inflight = << >>
    /\ inflight' = <<req>>
    /\ log' = Append(log, req)

\* a request whose promise is never settled
AnsweredNeverSettles(outcome, res) ==
    /\ inflight # << >>
    /\ UNCHANGED <<inflight, log>>

\* the awaited request is answered: the promise is settled
Answered(outcome, res) ==
    /\ inflight # << >>
    /\ inflight' = << >>
    /\ log' = [log EXCEPT ![Len(log)] = [@ EXCEPT !.outcome = outcome, !.res = res]]

Init ==
    /\ files \in FileLists
    /\ uiLocale \in InitialLocales
    /\ pc = "login"
    /\ inflight = << >>
    /\ token = ""
    /\ zfcp = Undefined
    /\ dasd = Undefined
    /\ data = << >>
    /\ fileIdx = 1
    /\ pathIdx = 0
    /\ connIdx = 1
    /\ mountIdx = 1
    /\ extraIdx = 1
    /\ languages = << >>
    /\ langIdx = 1
    /\ locIdx = 1
    /\ log = << >>
    /\ outFile = << >>
    /\ stdout = << >>
    /\ sanityWarned = FALSE
    /\ exitStatus = NotExited
    /\ failedFrom = "none"
    /\ failure = "none"

\* ---------------------------------------------------------------------------
\* Errors
\* ---------------------------------------------------------------------------

\* the values of the options the run reads: options.debug in the catch of
\* the main function, options.output when the result is written
DebugOptions ==
    BOOLEAN

OutputOptions ==
    {"stdout", "file"}

\* the catch of the main function: the error is printed, then the process
\* exits with 1, or the debug mode throws again and Node.js ends the process
MainCatch(kind) ==
    /\ pc' = "failed"
    /\ failedFrom' = pc
    /\ failure' = kind
    /\ \E debug \in DebugOptions :
        exitStatus' = IF debug THEN NodeErrorExit ELSE ExitFailure

\* an exception thrown in the "end" listener of a response is caught by
\* nobody: Node.js ends the process
UncaughtException(kind) ==
    /\ pc' = "failed"
    /\ failedFrom' = pc
    /\ failure' = kind
    /\ exitStatus' = NodeErrorExit

\* the promise of the awaited request is rejected: a status that is not 200
\* (not 2xx for the PATCH) or an error of the transport. No await of the run
\* is inside a try block but the one of the main function. A PATCH whose
\* connection broke may or may not have reached the server.
RejectionReachesMain ==
    /\ \E kind \in {"status", "transport"} :
        /\ Answered(kind, Undefined)
        /\ MainCatch(kind)
        /\ uiLocale' \in IF inflight[1].method = "PATCH" /\ kind = "transport"
                         THEN {uiLocale, inflight[1].body}
                         ELSE {uiLocale}
    /\ UNCHANGED <<inputVars, token, zfcp, dasd, data, loopVars, outputVars>>

\* a rejection the loop over the paths catches: the next path is downloaded
RejectionCaughtInLoop ==
    \/ /\ pc # "bulk"
       /\ RejectionReachesMain
    \/ /\ pc = "bulk"
       /\ \E kind \in {"status", "transport"} : Answered(kind, Undefined)
       /\ pathIdx' = pathIdx + 1
       /\ UNCHANGED <<inputVars, uiLocale, pc, token, zfcp, dasd, data, fileIdx,
                      connIdx, mountIdx, extraIdx, languages, langIdx, locIdx,
                      outputVars, endVars>>

\* a rejection of the login that is taken for a login without a token
RejectionCaughtInLogin ==
    \/ /\ pc # "login"
       /\ RejectionReachesMain
    \/ /\ pc = "login"
       /\ \E kind \in {"status", "transport"} : Answered(kind, Undefined)
       /\ pc' = "zfcp"
       /\ UNCHANGED <<inputVars, uiLocale, token, zfcp, dasd, data, loopVars,
                      outputVars, endVars>>

\* a rejection of the PATCH that switchLanguage() only logs
RejectionCaughtInSwitch ==
    \/ /\ pc # "switch"
       /\ RejectionReachesMain
    \/ /\ pc = "switch"
       /\ \E kind \in {"status", "transport"} : Answered(kind, Undefined)
       /\ pc' = "localized"
       /\ locIdx' = 1
       /\ UNCHANGED <<inputVars, uiLocale, token, zfcp, dasd, data, fileIdx,
                      pathIdx, connIdx, mountIdx, extraIdx, languages, langIdx,
                      outputVars, endVars>>

\* a rejection that extraPaths() catches: the next extra path is downloaded
RejectionCaughtInExtra ==
    \/ /\ pc # "extra"
       /\ RejectionReachesMain
    \/ /\ pc = "extra"
       /\ \E kind \in {"status", "transport"} : Answered(kind, Undefined)
       /\ extraIdx' = extraIdx + 1
       /\ UNCHANGED <<inputVars, uiLocale, pc, token, zfcp, dasd, data, fileIdx,
                      pathIdx, connIdx, mountIdx, languages, langIdx, locIdx,
                      outputVars, endVars>>

\* api(), login() and switchLanguage() reject; the error leaves readOpenAPI()
RequestRejected ==
    RejectionReachesMain

\* the body of a 200 response (of type application/json for a GET) is not
\* JSON: JSON.parse throws in the "end" listener
ResponseNotParsed ==
    /\ inflight # << >>
    /\ inflight[1].method \in {"POST", "GET"}
    /\ Answered("parse", Undefined)
    /\ UncaughtException("parse")
    /\ UNCHANGED <<inputVars, uiLocale, token, zfcp, dasd, data, loopVars,
                   outputVars>>

\* ---------------------------------------------------------------------------
\* login() and supported()
\* ---------------------------------------------------------------------------

\* login(): the POST of the password
LoginRequest ==
    /\ pc = "login"
    /\ Send(Request("POST", authPath, authPath, NoLanguage, << >>))
    /\ UNCHANGED <<inputVars, uiLocale, pc, token, zfcp, dasd, data, loopVars,
                   outputVars, endVars>>

\* login(): status 200, the promise resolves to the token
LoginResolved ==
    /\ pc = "login"
    /\ Answered("ok", Json)
    /\ token' = "token"
    /\ pc' = "zfcp"
    /\ UNCHANGED <<inputVars, uiLocale, zfcp, dasd, data, loopVars, outputVars,
                   endVars>>

\* the storage a probe position asks for
ProbeStorage(p) ==
    IF p = "zfcp" THEN zfcpStorage ELSE dasdStorage

\* supported(): the GET of the probe
SupportedRequest ==
    /\ pc \in {"zfcp", "dasd"}
    /\ LET path == SupportedPath(ProbeStorage(pc))
       IN  Send(Request("GET", path, path, NoLanguage, << >>))
    /\ UNCHANGED <<inputVars, uiLocale, pc, token, zfcp, dasd, data, loopVars,
                   outputVars, endVars>>

\* a supported() that returns the answer without storing it
SupportedNotStored ==
    /\ pc \in {"zfcp", "dasd"}
    /\ inflight # << >>
    /\ \E res \in Responses(inflight[1].path) :
        /\ Answered("ok", res)
        /\ IF pc = "zfcp"
           THEN zfcp' = res /\ dasd' = dasd /\ pc' = "dasd"
           ELSE dasd' = res /\ zfcp' = zfcp /\ pc' = "bulk"
    /\ UNCHANGED <<inputVars, uiLocale, token, data, loopVars, outputVars, endVars>>

\* supported(): the answer is stored under the probe path and returned
SupportedResolved ==
    /\ pc \in {"zfcp", "dasd"}
    /\ inflight # << >>
    /\ \E res \in Responses(inflight[1].path) :
        /\ Answered("ok", res)
        /\ data' = Put(data, inflight[1].path, res)
        /\ IF pc = "zfcp"
           THEN zfcp' = res /\ dasd' = dasd /\ pc' = "dasd"
           ELSE dasd' = res /\ zfcp' = zfcp /\ pc' = "bulk"
    /\ UNCHANGED <<inputVars, uiLocale, token, loopVars, outputVars, endVars>>

\* ---------------------------------------------------------------------------
\* readOpenAPI(): the loop over the files and their paths
\* ---------------------------------------------------------------------------

\* the paths of the file the loop is at
CurrentPaths ==
    files[fileIdx].paths

\* JSON.parse(fs.readFileSync(fullPath)) of the next file
ReadFile ==
    /\ pc = "bulk"
    /\ fileIdx <= Len(files)
    /\ pathIdx = 0
    /\ \/ /\ files[fileIdx].ok
          /\ pathIdx' = 1
          /\ UNCHANGED <<pc, endVars>>
       \/ /\ ~files[fileIdx].ok
          /\ MainCatch("file")
          /\ UNCHANGED pathIdx
    /\ UNCHANGED <<inputVars, uiLocale, inflight, token, zfcp, dasd, data, fileIdx,
                   connIdx, mountIdx, extraIdx, languages, langIdx, locIdx, log,
                   outputVars>>

\* a loop that does not move on to the next path
NextPathStuck(i) ==
    i

\* the position after a path of the file
NextPath(i) ==
    i + 1

\* a path without a GET operation, or a path the condition skips
SkipPath ==
    /\ pc = "bulk"
    /\ fileIdx <= Len(files)
    /\ pathIdx \in 1..Len(CurrentPaths)
    /\ inflight = << >>
    /\ \/ ~CurrentPaths[pathIdx].get
       \/ /\ CurrentPaths[pathIdx].get
          /\ ShouldSkip(CurrentPaths[pathIdx].name, zfcp, dasd)
    /\ pathIdx' = NextPath(pathIdx)
    /\ UNCHANGED <<inputVars, uiLocale, pc, inflight, token, zfcp, dasd, data,
                   fileIdx, connIdx, mountIdx, extraIdx, languages, langIdx,
                   locIdx, log, outputVars, endVars>>

\* a loop that downloads a path whatever operations it declares
DownloadPathAnyMethod ==
    /\ pc = "bulk"
    /\ fileIdx <= Len(files)
    /\ pathIdx \in 1..Len(CurrentPaths)
    /\ ~ShouldSkip(CurrentPaths[pathIdx].name, zfcp, dasd)
    /\ LET name == CurrentPaths[pathIdx].name
       IN  Send(Request("GET", RemoveTrailingSlash(name), name, NoLanguage, << >>))
    /\ UNCHANGED <<inputVars, uiLocale, pc, token, zfcp, dasd, data, loopVars,
                   outputVars, endVars>>

\* apiDownload(url, name, token, data): the GET of the path without its
\* trailing slash
DownloadPath ==
    /\ pc = "bulk"
    /\ fileIdx <= Len(files)
    /\ pathIdx \in 1..Len(CurrentPaths)
    /\ CurrentPaths[pathIdx].get
    /\ ~ShouldSkip(CurrentPaths[pathIdx].name, zfcp, dasd)
    /\ LET name == CurrentPaths[pathIdx].name
       IN  Send(Request("GET", RemoveTrailingSlash(name), name, NoLanguage, << >>))
    /\ UNCHANGED <<inputVars, uiLocale, pc, token, zfcp, dasd, data, loopVars,
                   outputVars, endVars>>

\* an apiDownload() that records nothing for an answer that is not JSON
PathDownloadedJsonOnly ==
    /\ pc = "bulk"
    /\ inflight # << >>
    /\ \E res \in Responses(inflight[1].path) :
        /\ Answered("ok", res)
        /\ data' = IF res = Null THEN data
                   ELSE StoreResponse(data, inflight[1].path, res, NoLanguage)
    /\ pathIdx' = NextPath(pathIdx)
    /\ UNCHANGED <<inputVars, uiLocale, pc, token, zfcp, dasd, fileIdx, connIdx,
                   mountIdx, extraIdx, languages, langIdx, locIdx,
                   outputVars, endVars>>

\* apiDownload() resolved: the answer is stored and the loop goes on
PathDownloaded ==
    /\ pc = "bulk"
    /\ inflight # << >>
    /\ \E res \in Responses(inflight[1].path) :
        /\ Answered("ok", res)
        /\ data' = StoreResponse(data, inflight[1].path, res, NoLanguage)
    /\ pathIdx' = NextPath(pathIdx)
    /\ UNCHANGED <<inputVars, uiLocale, pc, token, zfcp, dasd, fileIdx, connIdx,
                   mountIdx, extraIdx, languages, langIdx, locIdx,
                   outputVars, endVars>>

\* the paths of the file are done: the next file
NextFile ==
    /\ pc = "bulk"
    /\ fileIdx <= Len(files)
    /\ pathIdx > Len(CurrentPaths)
    /\ fileIdx' = fileIdx + 1
    /\ pathIdx' = 0
    /\ UNCHANGED <<inputVars, uiLocale, pc, inflight, token, zfcp, dasd, data,
                   connIdx, mountIdx, extraIdx, languages, langIdx, locIdx, log,
                   outputVars, endVars>>

\* readOpenAPI() with localizedPaths() called before extraPaths()
NextStageLocalizedFirst(p) ==
    CASE p = "bulk" -> "special"
      [] p = "special" -> "volumes"
      [] p = "volumes" -> "languages"
      [] p = "languages" -> "switch"
      [] p = "switch" -> "extra"
      [] p = "extra" -> "emit"
      [] p = "emit" -> "sanity"
      [] p = "sanity" -> "done"
      [] OTHER -> p

\* readOpenAPI() with the output written before localizedPaths() is called
NextStageEmitFirst(p) ==
    CASE p = "bulk" -> "special"
      [] p = "special" -> "volumes"
      [] p = "volumes" -> "extra"
      [] p = "extra" -> "emit"
      [] p = "emit" -> "languages"
      [] p = "languages" -> "switch"
      [] p = "switch" -> "sanity"
      [] p = "sanity" -> "done"
      [] OTHER -> p

\* the position after a stage of readOpenAPI()
NextStage(p) ==
    CASE p = "bulk" -> "special"
      [] p = "special" -> "volumes"
      [] p = "volumes" -> "extra"
      [] p = "extra" -> "languages"
      [] p = "languages" -> "switch"
      [] p = "switch" -> "emit"
      [] p = "emit" -> "sanity"
      [] p = "sanity" -> "done"
      [] OTHER -> p

\* all files are done: specialPaths() is called
FilesDone ==
    /\ pc = "bulk"
    /\ fileIdx > Len(files)
    /\ pc' = NextStage(pc)
    /\ UNCHANGED <<inputVars, uiLocale, inflight, token, zfcp, dasd, data,
                   loopVars, log, outputVars, endVars>>

\* ---------------------------------------------------------------------------
\* specialPaths()
\* ---------------------------------------------------------------------------

\* the entries the loop over data[connectionPath] visits: none when the value
\* is missing or null
NetworkConnections ==
    LET v == Get(data, connectionPath)
    IN  IF Truthy(v) /\ v.t = "list" THEN v.items ELSE << >>

\* the mount points the second loop visits: none when the parameters or
\* their mountPoints are missing
MountPoints ==
    LET v == Get(data, storageParamsPath)
    IN  IF Truthy(v) /\ v.t = "params" /\ v.hasMountPoints
        THEN v.mountPoints
        ELSE << >>

\* networkConnections[idx].id is empty or missing: no request
SkipConnection ==
    /\ pc = "special"
    /\ inflight = << >>
    /\ connIdx \in 1..Len(NetworkConnections)
    /\ LET c == NetworkConnections[connIdx]
       IN  c.e = "obj" /\ ~(c.hasId /\ c.id # << >>)
    /\ connIdx' = connIdx + 1
    /\ UNCHANGED <<inputVars, uiLocale, pc, inflight, token, zfcp, dasd, data,
                   fileIdx, pathIdx, mountIdx, extraIdx, languages, langIdx,
                   locIdx, log, outputVars, endVars>>

\* networkConnections[idx] is null: reading its id throws a TypeError
NullConnection ==
    /\ pc = "special"
    /\ inflight = << >>
    /\ connIdx \in 1..Len(NetworkConnections)
    /\ NetworkConnections[connIdx].e = "null"
    /\ MainCatch("type")
    /\ UNCHANGED <<inputVars, uiLocale, inflight, token, zfcp, dasd, data,
                   loopVars, log, outputVars>>

\* a loop that requests the child of every entry, whatever its id
ConnectionRequestAnyId ==
    /\ pc = "special"
    /\ connIdx \in 1..Len(NetworkConnections)
    /\ LET c == NetworkConnections[connIdx]
       IN  /\ c.e = "obj"
           /\ Send(Request("GET", ConnectionChildPath(c.id),
                           ConnectionChildPath(c.id), NoLanguage, << >>))
    /\ UNCHANGED <<inputVars, uiLocale, pc, token, zfcp, dasd, data, loopVars,
                   outputVars, endVars>>

\* the GET of connectionPath + "/" + id
ConnectionRequest ==
    /\ pc = "special"
    /\ connIdx \in 1..Len(NetworkConnections)
    /\ LET c == NetworkConnections[connIdx]
       IN  /\ c.e = "obj" /\ c.hasId /\ c.id # << >>
           /\ Send(Request("GET", ConnectionChildPath(c.id),
                           ConnectionChildPath(c.id), NoLanguage, << >>))
    /\ UNCHANGED <<inputVars, uiLocale, pc, token, zfcp, dasd, data, loopVars,
                   outputVars, endVars>>

\* data[path] = res
ConnectionResolved ==
    /\ pc = "special"
    /\ inflight # << >>
    /\ \E res \in Responses(inflight[1].path) :
        /\ Answered("ok", res)
        /\ data' = Put(data, inflight[1].path, res)
    /\ connIdx' = connIdx + 1
    /\ UNCHANGED <<inputVars, uiLocale, pc, token, zfcp, dasd, fileIdx, pathIdx,
                   mountIdx, extraIdx, languages, langIdx, locIdx,
                   outputVars, endVars>>

\* a specialPaths() that does not append the empty mount point
PushNothing(d) ==
    d

\* mountPoints.push(""): the list is the one stored in data
PushEmptyMountPoint(d) ==
    LET v == Get(d, storageParamsPath)
    IN  IF Truthy(v) /\ v.t = "params" /\ v.hasMountPoints
        THEN Put(d, storageParamsPath,
                 [v EXCEPT !.mountPoints = Append(v.mountPoints, << >>)])
        ELSE d

\* the loop over the connections is done: the mount points are read and the
\* empty one is appended
ConnectionsDone ==
    /\ pc = "special"
    /\ inflight = << >>
    /\ connIdx > Len(NetworkConnections)
    /\ data' = PushEmptyMountPoint(data)
    /\ pc' = NextStage(pc)
    /\ UNCHANGED <<inputVars, uiLocale, inflight, token, zfcp, dasd, loopVars,
                   log, outputVars, endVars>>

\* the GET of volumePath + "?mount_path=" + the encoded mount point
VolumeRequest ==
    /\ pc = "volumes"
    /\ mountIdx \in 1..Len(MountPoints)
    /\ LET path == VolumeForPath(MountPoints[mountIdx])
       IN  Send(Request("GET", path, path, NoLanguage, << >>))
    /\ UNCHANGED <<inputVars, uiLocale, pc, token, zfcp, dasd, data, loopVars,
                   outputVars, endVars>>

\* data[path] = res
VolumeResolved ==
    /\ pc = "volumes"
    /\ inflight # << >>
    /\ \E res \in Responses(inflight[1].path) :
        /\ Answered("ok", res)
        /\ data' = Put(data, inflight[1].path, res)
    /\ mountIdx' = mountIdx + 1
    /\ UNCHANGED <<inputVars, uiLocale, pc, token, zfcp, dasd, fileIdx, pathIdx,
                   connIdx, extraIdx, languages, langIdx, locIdx,
                   outputVars, endVars>>

\* specialPaths() returns: extraPaths() is called
VolumesDone ==
    /\ pc = "volumes"
    /\ inflight = << >>
    /\ mountIdx > Len(MountPoints)
    /\ pc' = NextStage(pc)
    /\ UNCHANGED <<inputVars, uiLocale, inflight, token, zfcp, dasd, data,
                   loopVars, log, outputVars, endVars>>

\* ---------------------------------------------------------------------------
\* extraPaths()
\* ---------------------------------------------------------------------------

\* apiDownload(url, extra[idx], token, data)
ExtraRequest ==
    /\ pc = "extra"
    /\ extraIdx \in 1..Len(extra)
    /\ Send(Request("GET", RemoveTrailingSlash(extra[extraIdx]), extra[extraIdx],
                    NoLanguage, << >>))
    /\ UNCHANGED <<inputVars, uiLocale, pc, token, zfcp, dasd, data, loopVars,
                   outputVars, endVars>>

ExtraResolved ==
    /\ pc = "extra"
    /\ inflight # << >>
    /\ \E res \in Responses(inflight[1].path) :
        /\ Answered("ok", res)
        /\ data' = StoreResponse(data, inflight[1].path, res, NoLanguage)
    /\ extraIdx' = extraIdx + 1
    /\ UNCHANGED <<inputVars, uiLocale, pc, token, zfcp, dasd, fileIdx, pathIdx,
                   connIdx, mountIdx, languages, langIdx, locIdx,
                   outputVars, endVars>>

\* extraPaths() returns: localizedPaths() is called
ExtraDone ==
    /\ pc = "extra"
    /\ inflight = << >>
    /\ extraIdx > Len(extra)
    /\ pc' = NextStage(pc)
    /\ UNCHANGED <<inputVars, uiLocale, inflight, token, zfcp, dasd, data,
                   loopVars, log, outputVars, endVars>>

\* ---------------------------------------------------------------------------
\* localizedPaths() and switchLanguage()
\* ---------------------------------------------------------------------------

\* the GET of /languages.json
LanguagesRequest ==
    /\ pc = "languages"
    /\ Send(Request("GET", languagesPath, languagesPath, NoLanguage, << >>))
    /\ UNCHANGED <<inputVars, uiLocale, pc, token, zfcp, dasd, data, loopVars,
                   outputVars, endVars>>

\* the keys of the answer are the languages of the loop; null has none
LanguagesResolved ==
    /\ pc = "languages"
    /\ inflight # << >>
    /\ \E res \in Responses(inflight[1].path) :
        /\ Answered("ok", res)
        /\ languages' = IF res.t = "languages" THEN res.tags ELSE << >>
    /\ pc' = NextStage(pc)
    /\ UNCHANGED <<inputVars, uiLocale, token, zfcp, dasd, data, fileIdx,
                   pathIdx, connIdx, mountIdx, extraIdx, langIdx, locIdx,
                   outputVars, endVars>>

\* a loop that switches the language for the first language only
SwitchOnlyFirstLanguage ==
    /\ pc = "switch"
    /\ langIdx \in 1..Len(languages)
    /\ IF langIdx = 1
       THEN /\ Send(Request("PATCH", l10nConfigPath, l10nConfigPath,
                            <<languages[langIdx]>>, UiLanguage(languages[langIdx])))
            /\ UNCHANGED <<pc, locIdx>>
       ELSE /\ inflight = << >>
            /\ pc' = "localized"
            /\ locIdx' = 1
            /\ UNCHANGED <<inflight, log>>
    /\ UNCHANGED <<inputVars, uiLocale, token, zfcp, dasd, data, fileIdx, pathIdx,
                   connIdx, mountIdx, extraIdx, languages, langIdx, outputVars,
                   endVars>>

\* switchLanguage(url, token, uiLanguage): the PATCH of the UI locale
SwitchRequest ==
    /\ pc = "switch"
    /\ langIdx \in 1..Len(languages)
    /\ Send(Request("PATCH", l10nConfigPath, l10nConfigPath,
                    <<languages[langIdx]>>, UiLanguage(languages[langIdx])))
    /\ UNCHANGED <<inputVars, uiLocale, pc, token, zfcp, dasd, data, loopVars,
                   outputVars, endVars>>

\* a 2xx status: the server has the new locale and the paths of the language
\* are downloaded
SwitchResolved ==
    /\ pc = "switch"
    /\ Answered("ok", Null)
    /\ uiLocale' = inflight[1].body
    /\ pc' = "localized"
    /\ locIdx' = 1
    /\ UNCHANGED <<inputVars, token, zfcp, dasd, data, fileIdx, pathIdx, connIdx,
                   mountIdx, extraIdx, languages, langIdx, outputVars,
                   endVars>>

\* apiDownload(url, localized[idx], token, data, language)
LocalizedRequest ==
    /\ pc = "localized"
    /\ locIdx \in 1..Len(localized)
    /\ Send(Request("GET", RemoveTrailingSlash(localized[locIdx]),
                    localized[locIdx], <<languages[langIdx]>>, << >>))
    /\ UNCHANGED <<inputVars, uiLocale, pc, token, zfcp, dasd, data, loopVars,
                   outputVars, endVars>>

LocalizedResolved ==
    /\ pc = "localized"
    /\ inflight # << >>
    /\ \E res \in Responses(inflight[1].path) :
        /\ Answered("ok", res)
        /\ data' = StoreResponse(data, inflight[1].path, res, inflight[1].language)
    /\ locIdx' = locIdx + 1
    /\ UNCHANGED <<inputVars, uiLocale, pc, token, zfcp, dasd, fileIdx, pathIdx,
                   connIdx, mountIdx, extraIdx, languages, langIdx,
                   outputVars, endVars>>

\* the localized paths of the language are done: the next language
LanguageDone ==
    /\ pc = "localized"
    /\ inflight = << >>
    /\ locIdx > Len(localized)
    /\ langIdx' = langIdx + 1
    /\ pc' = "switch"
    /\ UNCHANGED <<inputVars, uiLocale, inflight, token, zfcp, dasd, data,
                   fileIdx, pathIdx, connIdx, mountIdx, extraIdx, languages,
                   locIdx, log, outputVars, endVars>>

\* localizedPaths() that puts back the locale the server had at the login
LanguagesDoneRestoresLocale ==
    /\ pc = "switch"
    /\ inflight = << >>
    /\ langIdx > Len(languages)
    /\ pc' = NextStage(pc)
    /\ uiLocale' = log[1].locale
    /\ UNCHANGED <<inputVars, inflight, token, zfcp, dasd, data, loopVars, log,
                   outputVars, endVars>>

\* localizedPaths() returns
LanguagesDone ==
    /\ pc = "switch"
    /\ inflight = << >>
    /\ langIdx > Len(languages)
    /\ pc' = NextStage(pc)
    /\ UNCHANGED <<inputVars, uiLocale, inflight, token, zfcp, dasd, data,
                   loopVars, log, outputVars, endVars>>

\* ---------------------------------------------------------------------------
\* The output and sanityCheck()
\* ---------------------------------------------------------------------------

\* JSON.stringify(data, null, 2): one line per key, in insertion order, the
\* keys of a nested object one level deeper after the line of their key
RECURSIVE Stringify(_, _)
Stringify(entries, depth) ==
    IF entries = << >> THEN << >>
    ELSE LET e == Head(entries)
         IN  IF e.v.t = "obj"
             THEN <<[depth |-> depth, key |-> e.k, value |-> Object(<< >>)]>>
                  \o Stringify(e.v.entries, depth + 1)
                  \o Stringify(Tail(entries), depth)
             ELSE <<[depth |-> depth, key |-> e.k, value |-> e.v]>>
                  \o Stringify(Tail(entries), depth)

\* fs.writeFileSync(options.output, result) or console.log(result); the file
\* may not be writable, writeFileSync throws then
WriteOutput ==
    /\ pc = "emit"
    /\ \E output \in OutputOptions :
       LET result == Stringify(data, 1)
       IN  \/ /\ output = "file"
              /\ outFile' = Append(outFile, result)
              /\ pc' = NextStage(pc)
              /\ UNCHANGED <<stdout, endVars>>
           \/ /\ output = "file"
              /\ MainCatch("write")
              /\ UNCHANGED <<outFile, stdout>>
           \/ /\ output = "stdout"
              /\ stdout' = Append(stdout, result)
              /\ pc' = NextStage(pc)
              /\ UNCHANGED <<outFile, endVars>>
    /\ UNCHANGED <<inputVars, uiLocale, inflight, token, zfcp, dasd, data,
                   loopVars, log, sanityWarned>>

\* sanityCheck(data): a warning when no product is selected; readOpenAPI()
\* returns and the process ends
SanityCheck ==
    /\ pc = "sanity"
    /\ LET config == Get(data, softwareConfigPath)
       IN  sanityWarned' = (~Truthy(config) \/ ~(config.t = "config" /\ config.product))
    /\ pc' = NextStage(pc)
    /\ exitStatus' = ExitSuccess
    /\ UNCHANGED <<inputVars, uiLocale, inflight, token, zfcp, dasd, data,
                   loopVars, log, outFile, stdout, failedFrom, failure>>

\* ---------------------------------------------------------------------------
\* The run
\* ---------------------------------------------------------------------------

Next ==
    \/ LoginRequest
    \/ LoginResolved
    \/ SupportedRequest
    \/ SupportedResolved
    \/ ReadFile
    \/ SkipPath
    \/ DownloadPath
    \/ PathDownloaded
    \/ NextFile
    \/ FilesDone
    \/ SkipConnection
    \/ NullConnection
    \/ ConnectionRequest
    \/ ConnectionResolved
    \/ ConnectionsDone
    \/ VolumeRequest
    \/ VolumeResolved
    \/ VolumesDone
    \/ ExtraRequest
    \/ ExtraResolved
    \/ ExtraDone
    \/ LanguagesRequest
    \/ LanguagesResolved
    \/ SwitchRequest
    \/ SwitchResolved
    \/ LocalizedRequest
    \/ LocalizedResolved
    \/ LanguageDone
    \/ LanguagesDone
    \/ WriteOutput
    \/ SanityCheck
    \/ RequestRejected
    \/ ResponseNotParsed

Spec ==
    Init /\ [][Next]_vars

\* the run when every request is answered or fails, and the event loop runs
\* the continuation of every settled promise: no step that can be taken is
\* put off forever
FairSpec ==
    Init /\ [][Next]_vars /\ WF_vars(Next)

\* ---------------------------------------------------------------------------
\* agama_dump.ts, the script the build packs: the same login, probes and
\* special paths; the bulk pass has no localized list and does not trim the
\* path, there is no extra and no localized pass, and sanityCheck() reads
\* config.product without testing config
\* ---------------------------------------------------------------------------

\* readOpenAPI() of agama_dump.ts: the condition under which a path is skipped
DumpShouldSkip(name, zfcpFlag, dasdFlag) ==
    \/ Includes(skip, name)
    \/ (~Truthy(zfcpFlag) /\ Matches(name, zfcpMarker))
    \/ (~Truthy(dasdFlag) /\ Matches(name, dasdMarker))

DumpSkipPath ==
    /\ pc = "bulk"
    /\ fileIdx <= Len(files)
    /\ pathIdx \in 1..Len(CurrentPaths)
    /\ inflight = << >>
    /\ \/ ~CurrentPaths[pathIdx].get
       \/ /\ CurrentPaths[pathIdx].get
          /\ DumpShouldSkip(CurrentPaths[pathIdx].name, zfcp, dasd)
    /\ pathIdx' = NextPath(pathIdx)
    /\ UNCHANGED <<inputVars, uiLocale, pc, inflight, token, zfcp, dasd, data,
                   fileIdx, connIdx, mountIdx, extraIdx, languages, langIdx,
                   locIdx, log, outputVars, endVars>>

\* api(url + name, token): the GET of the path as the document names it
DumpDownloadPath ==
    /\ pc = "bulk"
    /\ fileIdx <= Len(files)
    /\ pathIdx \in 1..Len(CurrentPaths)
    /\ CurrentPaths[pathIdx].get
    /\ ~DumpShouldSkip(CurrentPaths[pathIdx].name, zfcp, dasd)
    /\ LET name == CurrentPaths[pathIdx].name
       IN  Send(Request("GET", name, name, NoLanguage, << >>))
    /\ UNCHANGED <<inputVars, uiLocale, pc, token, zfcp, dasd, data, loopVars,
                   outputVars, endVars>>

\* specialPaths() returns: the data are written
DumpSpecialDone ==
    /\ pc = "volumes"
    /\ inflight = << >>
    /\ mountIdx > Len(MountPoints)
    /\ pc' = "emit"
    /\ UNCHANGED <<inputVars, uiLocale, inflight, token, zfcp, dasd, data,
                   loopVars, log, outputVars, endVars>>

\* sanityCheck(data) of agama_dump.ts: config.product of a config that is
\* undefined or null throws a TypeError, which leaves readOpenAPI() for the
\* catch of the main function; the process ends with status 1 with and
\* without the debug option
DumpSanityCheck ==
    /\ pc = "sanity"
    /\ LET config == Get(data, softwareConfigPath)
       IN  \/ /\ config \in {Undefined, Null}
              /\ MainCatch("type")
              /\ UNCHANGED sanityWarned
           \/ /\ config \notin {Undefined, Null}
              /\ sanityWarned' = ~(config.t = "config" /\ config.product)
              /\ pc' = NextStage(pc)
              /\ exitStatus' = ExitSuccess
              /\ UNCHANGED <<failedFrom, failure>>
    /\ UNCHANGED <<inputVars, uiLocale, inflight, token, zfcp, dasd, data,
                   loopVars, log, outFile, stdout>>

DumpNext ==
    \/ LoginRequest
    \/ LoginResolved
    \/ SupportedRequest
    \/ SupportedResolved
    \/ ReadFile
    \/ DumpSkipPath
    \/ DumpDownloadPath
    \/ PathDownloaded
    \/ NextFile
    \/ FilesDone
    \/ SkipConnection
    \/ NullConnection
    \/ ConnectionRequest
    \/ ConnectionResolved
    \/ ConnectionsDone
    \/ VolumeRequest
    \/ VolumeResolved
    \/ DumpSpecialDone
    \/ WriteOutput
    \/ DumpSanityCheck
    \/ RequestRejected
    \/ ResponseNotParsed

DumpSpec ==
    Init /\ [][DumpNext]_vars

\* ---------------------------------------------------------------------------
\* Properties
\* ---------------------------------------------------------------------------

\* the outcomes of a request that failed
FailedOutcomes ==
    {"status", "transport", "parse"}

NothingEmitted ==
    outFile = << >> /\ stdout = << >>

ExitedWithError ==
    exitStatus \notin {NotExited, ExitSuccess}

\* the requests of a stage
StageRequests(stage) ==
    {i \in DOMAIN log : log[i].stage = stage}

\* C1, as the specification states it: a GET of the bulk pass that fails
\* never moves the run to Failed
C1_BulkFailureIsSurvived ==
    \A i \in StageRequests("bulk") :
        log[i].outcome \in FailedOutcomes => pc # "failed"

\* C1, amended: a GET of the bulk pass that fails (a status that is not 200,
\* an error of the transport or a body that is not JSON) ends the run in
\* Failed with a non-zero exit status: the failed GET is the last request of
\* the run, no later pass runs and nothing is emitted
C1_BulkFailureIsFatal ==
    \A i \in StageRequests("bulk") :
        log[i].outcome \in FailedOutcomes =>
            /\ pc = "failed"
            /\ failedFrom = "bulk"
            /\ ExitedWithError
            /\ i = Len(log)
            /\ NothingEmitted

\* a GET of the bulk pass failed with a status while declared paths were left
C1_Witness ==
    /\ pc = "failed"
    /\ failedFrom = "bulk"
    /\ log[Len(log)].outcome = "status"
    /\ fileIdx <= Len(files)
    /\ pathIdx < Len(CurrentPaths)
    /\ \E j \in (pathIdx + 1)..Len(CurrentPaths) :
        CurrentPaths[j].get /\ ~ShouldSkip(CurrentPaths[j].name, zfcp, dasd)

\* the order of the stages
StageRank(stage) ==
    CASE stage = "login" -> 1
      [] stage = "zfcp" -> 2
      [] stage = "dasd" -> 3
      [] stage = "bulk" -> 4
      [] stage = "special" -> 5
      [] stage = "extra" -> 6
      [] stage = "localized" -> 7
      [] stage = "emit" -> 8
      [] stage = "sanity" -> 9
      [] stage = "done" -> 10
      [] OTHER -> 0

\* C2, as the specification states it: Failed is entered from the login or
\* the probes only
C2_FailedOnlyBeforeBulk ==
    pc = "failed" => failedFrom \in {"login", "zfcp", "dasd"}

\* the requests are in the order of the stages, a request is sent only after
\* all earlier ones were answered with success, the run starts with the
\* login and the two probes, and the output is written after the last request
StagesInOrder ==
    /\ \A i, j \in DOMAIN log :
        i < j => /\ StageRank(log[i].stage) <= StageRank(log[j].stage)
                 /\ log[i].outcome = "ok"
    /\ \A i \in DOMAIN log :
        /\ i = 1 <=> log[i].stage = "login"
        /\ i = 2 <=> log[i].stage = "zfcp"
        /\ i = 3 <=> log[i].stage = "dasd"
    /\ (pc # "failed" /\ log # << >>) =>
            StageRank(Stage(pc)) >= StageRank(log[Len(log)].stage)
    /\ ~NothingEmitted =>
            /\ pc \in {"sanity", "done"}
            /\ inflight = << >>
            /\ \A i \in DOMAIN log : log[i].outcome = "ok"
    /\ pc = "failed" => StageRank(Stage(failedFrom)) \in 1..8

\* a step moves the run to the next stage, stays in the stage or fails, and
\* leaves a stage only when no request is awaited
StageStep ==
    \/ pc' = "failed"
    \/ StageRank(Stage(pc')) = StageRank(Stage(pc))
    \/ /\ StageRank(Stage(pc')) = StageRank(Stage(pc)) + 1
       /\ inflight' = << >>

\* C2, amended: the stages happen in the order login, zfcp probe, dasd probe,
\* bulk pass, special paths, extra paths, localized paths, output; no stage
\* starts before the previous one has finished; Failed is entered from every
\* stage up to the output, not from the login and the probes only
C2_StageOrder ==
    [](StagesInOrder) /\ [][StageStep]_vars

\* a run that went through every stage
C2_Witness ==
    /\ pc = "done"
    /\ \A s \in {"login", "zfcp", "dasd", "bulk", "special", "extra", "localized"} :
        StageRequests(s) # {}

\* C3: a login POST that is answered with a status other than 200 (or fails
\* otherwise) ends the run in Failed with a non-zero exit status; the POST is
\* the only request of the run and nothing is written
C3_LoginFailure ==
    (log # << >> /\ log[1].outcome \in FailedOutcomes) =>
        /\ pc = "failed"
        /\ failedFrom = "login"
        /\ ExitedWithError
        /\ \A i \in DOMAIN log : log[i].method = "POST"
        /\ Len(log) = 1
        /\ NothingEmitted

\* the login was answered with a status other than 200
C3_Witness ==
    /\ pc = "failed"
    /\ log[1].method = "POST"
    /\ log[1].outcome = "status"

\* C4: a capability probe that fails ends the run in Failed: it is the last
\* request and nothing is emitted. When both succeed, before the first
\* request of the bulk pass the data holds exactly their two answers under
\* /api/storage/zfcp/supported and /api/storage/dasd/supported, which are the
\* flags, and the two keys stay in the data from then on
C4_Probes ==
    /\ \A i \in StageRequests("zfcp") \cup StageRequests("dasd") :
        log[i].outcome \in FailedOutcomes =>
            /\ pc = "failed"
            /\ ExitedWithError
            /\ i = Len(log)
            /\ NothingEmitted
    /\ (pc = "bulk" /\ StageRequests("bulk") = {}) =>
            /\ data = <<[k |-> SupportedPath(zfcpStorage), v |-> log[2].res],
                        [k |-> SupportedPath(dasdStorage), v |-> log[3].res]>>
            /\ zfcp = log[2].res
            /\ dasd = log[3].res
    /\ StageRequests("bulk") # {} =>
            /\ Len(data) >= 2
            /\ data[1].k = SupportedPath(zfcpStorage)
            /\ data[2].k = SupportedPath(dasdStorage)
            /\ log[2].path = SupportedPath(zfcpStorage)
            /\ log[3].path = SupportedPath(dasdStorage)
            /\ log[2].outcome = "ok" /\ log[3].outcome = "ok"

\* both probes succeeded and the first request of the bulk pass is awaited
C4_Witness ==
    /\ pc = "bulk"
    /\ Cardinality(StageRequests("bulk")) = 1
    /\ inflight # << >>
    /\ Get(data, SupportedPath(zfcpStorage)) = Bool(TRUE)
    /\ Get(data, SupportedPath(dasdStorage)) = Bool(FALSE)

\* the declarations of the loaded documents: file and position in the file
Declared ==
    UNION {{<<f, p>> : p \in DOMAIN files[f].paths} : f \in DOMAIN files}

\* the declarations the loop has left behind, and those it has reached
Visited ==
    {d \in Declared : d[1] < fileIdx \/ (d[1] = fileIdx /\ d[2] < pathIdx)}

Reached ==
    {d \in Declared : d[1] < fileIdx \/ (d[1] = fileIdx /\ d[2] <= pathIdx)}

DeclaredName(d) ==
    files[d[1]].paths[d[2]].name

\* a declaration with a GET operation that the condition does not skip
Downloadable(d) ==
    /\ files[d[1]].paths[d[2]].get
    /\ ~ShouldSkip(DeclaredName(d), zfcp, dasd)

\* the GETs of the bulk pass made for a template
BulkGets(tmpl) ==
    {i \in StageRequests("bulk") : log[i].tmpl = tmpl}

\* C5, as the specification states it: the bulk pass issues at most one GET
\* per distinct path template
C5_OneGetPerTemplate ==
    \A i, j \in StageRequests("bulk") : log[i].tmpl = log[j].tmpl => i = j

\* C5, amended: the bulk pass does not deduplicate across documents: it
\* issues one GET per declaration, so a template that n loaded documents
\* declare with a GET operation is requested n times (once per document);
\* the data then holds one entry per request key
C5_OneGetPerDeclaration ==
    /\ LET downloads == {d \in Reached : Downloadable(d)}
           names == {DeclaredName(d) : d \in downloads}
       IN  /\ \A i \in StageRequests("bulk") : log[i].tmpl \in names
           /\ \A name \in names :
                /\ Cardinality(BulkGets(name)) >=
                       Cardinality({d \in downloads \cap Visited : DeclaredName(d) = name})
                /\ Cardinality(BulkGets(name)) <=
                       Cardinality({d \in downloads : DeclaredName(d) = name})
    /\ \A i, j \in DOMAIN data : data[i].k = data[j].k => i = j

\* a template declared by two documents was downloaded twice
C5_Witness ==
    \E i, j \in StageRequests("bulk") :
        /\ i < j
        /\ log[i].tmpl = log[j].tmpl
        /\ log[i].outcome = "ok" /\ log[j].outcome = "ok"

\* the declaration was requested in the bulk pass, at its path without the
\* trailing slash
Requested(name) ==
    \E i \in StageRequests("bulk") :
        /\ log[i].method = "GET"
        /\ log[i].tmpl = name
        /\ log[i].path = RemoveTrailingSlash(name)

\* C6: after the probe of a capability, no GET is issued for a template that
\* matches its marker while the flag is false; while the flag is true the
\* marker plays no role: a declared template that matches it is downloaded
\* in the bulk pass under the same conditions as any other template (not in
\* the skip list, not in the localized list, not excluded by the other flag)
C6_CapabilityGate ==
    /\ ~Truthy(zfcp) =>
        \A i \in DOMAIN log : log[i].stage # "zfcp" => ~Matches(log[i].tmpl, zfcpMarker)
    /\ ~Truthy(dasd) =>
        \A i \in DOMAIN log : log[i].stage # "dasd" => ~Matches(log[i].tmpl, dasdMarker)
    /\ \A d \in {e \in Visited : files[e[1]].paths[e[2]].get} :
        LET name == DeclaredName(d)
            isZfcp == Matches(name, zfcpMarker)
            isDasd == Matches(name, dasdMarker)
            listed == Includes(skip, name) \/ Includes(localized, name)
        IN  /\ (Truthy(zfcp) /\ isZfcp) =>
                (Requested(name) <=> ~(listed \/ (~Truthy(dasd) /\ isDasd)))
            /\ (Truthy(dasd) /\ isDasd) =>
                (Requested(name) <=> ~(listed \/ (~Truthy(zfcp) /\ isZfcp)))

\* zfcp is supported and dasd is not: a zfcp template was downloaded in the
\* bulk pass and the dasd templates were passed over
C6_Witness ==
    /\ pc = "done"
    /\ Truthy(zfcp) /\ ~Truthy(dasd)
    /\ \E i \in StageRequests("bulk") : Matches(log[i].tmpl, zfcpMarker)
    /\ \E d \in Visited :
        files[d[1]].paths[d[2]].get /\ Matches(DeclaredName(d), dasdMarker)

LanguageRequests(method, tag) ==
    {i \in DOMAIN log :
        log[i].stage = "localized" /\ log[i].method = method /\ log[i].language = <<tag>>}

\* the languages whose PATCH was answered
Switched ==
    {l \in DOMAIN languages : l < langIdx \/ (l = langIdx /\ pc = "localized")}

\* the value stored at data[tag][path]
Nested(tag, path) ==
    IF Has(data, tag) /\ Get(data, tag).t = "obj"
    THEN Get(Get(data, tag).entries, path)
    ELSE Undefined

\* C8: the localized pass issues exactly one PATCH per language, answered
\* before the first localized GET of that language; every localized response
\* is stored at data[tag][path] and, at the end of a run, no key of the top
\* level equals a path of the localized list
C8_LocalizedNeverAtTop ==
    /\ \A l \in Switched : Cardinality(LanguageRequests("PATCH", languages[l])) = 1
    /\ \A i \in DOMAIN log :
        (log[i].stage = "localized" /\ log[i].method = "GET" /\ log[i].language # NoLanguage) =>
            /\ \E j \in LanguageRequests("PATCH", log[i].language[1]) :
                j < i /\ log[j].outcome = "ok"
            /\ log[i].outcome = "ok" =>
                Nested(log[i].language[1], log[i].path) = log[i].res
    /\ pc = "done" => \A k \in DOMAIN localized : ~Has(data, localized[k])

\* C9: every localized GET of a language is sent while the locale of the
\* server is the identifier derived from the language tag, and the requests
\* of a language (its PATCH and its GETs) are not interleaved with a request
\* of another language
C9_LocaleOfLanguage ==
    /\ \A i \in DOMAIN log :
        (log[i].stage = "localized" /\ log[i].method = "GET" /\ log[i].language # NoLanguage) =>
            log[i].locale = UiLanguage(log[i].language[1])
    /\ \A j \in DOMAIN log :
        (j > 1 /\ log[j].language # NoLanguage /\ log[j - 1].language # log[j].language) =>
            \A i \in 1..(j - 1) : log[i].language # log[j].language

\* the last path of the second language was fetched under its own locale
C9_Witness ==
    /\ Len(languages) = 2
    /\ UiLanguage(languages[1]) # UiLanguage(languages[2])
    /\ \E i \in LanguageRequests("GET", languages[2]) :
        /\ log[i].path = localized[Len(localized)]
        /\ log[i].outcome = "ok"
        /\ log[i].locale = UiLanguage(languages[2])

\* C10, as the specification states it: a PATCH that fails does not move the
\* run to Failed
C10_SwitchFailureIsSurvived ==
    \A i \in DOMAIN log :
        (log[i].method = "PATCH" /\ log[i].outcome \in FailedOutcomes) => pc # "failed"

\* C10, amended: a PATCH that fails (a status outside 2xx or an error of the
\* transport) is fatal: the run ends in Failed with a non-zero exit status,
\* the PATCH is its last request, the remaining languages are not processed
\* and nothing is emitted
C10_SwitchFailureIsFatal ==
    \A i \in DOMAIN log :
        (log[i].method = "PATCH" /\ log[i].outcome \in FailedOutcomes) =>
            /\ pc = "failed"
            /\ failedFrom = "switch"
            /\ ExitedWithError
            /\ i = Len(log)
            /\ NothingEmitted

\* the PATCH of the first of two languages failed
C10_Witness ==
    /\ pc = "failed"
    /\ log[Len(log)].method = "PATCH"
    /\ log[Len(log)].outcome = "status"
    /\ langIdx < Len(languages)

\* the GETs of the passes that follow the bulk pass
LaterGets ==
    {i \in DOMAIN log :
        log[i].method = "GET" /\ log[i].stage \in {"special", "extra", "localized"}}

\* C11, as the specification states it: a GET of the special-paths, extra or
\* localized pass that fails never moves the run to Failed
C11_LaterFailureIsSurvived ==
    \A i \in LaterGets : log[i].outcome \in FailedOutcomes => pc # "failed"

\* C11, amended: a GET of the special-paths, extra or localized pass that
\* fails ends the run in Failed with a non-zero exit status: the failed GET
\* is the last request of the run, the later stages do not run and nothing
\* is emitted
C11_LaterFailureIsFatal ==
    \A i \in LaterGets :
        log[i].outcome \in FailedOutcomes =>
            /\ pc = "failed"
            /\ Stage(failedFrom) = log[i].stage
            /\ ExitedWithError
            /\ i = Len(log)
            /\ NothingEmitted

\* the GET of the extra path failed with a status
C11_Witness ==
    /\ pc = "failed"
    /\ failedFrom = "extra"
    /\ log[Len(log)].outcome = "status"
    /\ log[Len(log)].path = extra[1]

\* C12: at most one request is in flight: the only request without an answer
\* is the last one sent, and it is the one the run awaits
C12_OneRequestInFlight ==
    /\ Len(inflight) <= 1
    /\ \A i \in DOMAIN log :
        log[i].outcome = "pending" => (i = Len(log) /\ inflight = <<log[i]>>)
    /\ inflight # << >> => (log # << >> /\ log[Len(log)].outcome = "pending")

\* the PATCH of a language is in flight after the requests before it were
\* answered
C12_Witness ==
    /\ inflight # << >>
    /\ inflight[1].method = "PATCH"
    /\ Len(log) > 3
    /\ \A i \in 1..(Len(log) - 1) : log[i].outcome = "ok"

\* the paths of the child GETs of the connections, in the order of the requests
ChildGets ==
    SelectSeq(log, LAMBDA r :
        /\ r.stage = "special"
        /\ Len(r.path) > Len(connectionPath)
        /\ SubSeq(r.path, 1, Len(connectionPath) + 1) = connectionPath \o <<"/">>)

\* the child paths of the first n entries of the list: one per entry with an
\* id that is not empty, in the order of the list
ChildPaths(n) ==
    LET withId == SelectSeq(SubSeq(NetworkConnections, 1, n),
                            LAMBDA c : c.e = "obj" /\ c.hasId /\ c.id # << >>)
    IN  [i \in DOMAIN withId |-> connectionPath \o <<"/">> \o withId[i].id]

\* C13: the special-paths pass issues one GET of the child path per entry of
\* the recorded connections whose id is not empty, in the order of the list,
\* none for an entry with an empty or a missing id, and records each answer
\* under the child path
C13_ConnectionChildren ==
    LET requested == [i \in DOMAIN ChildGets |-> ChildGets[i].path]
    IN  /\ pc = "special" =>
            requested = ChildPaths(IF inflight = << >> THEN connIdx - 1 ELSE connIdx)
        /\ pc \in {"volumes", "extra", "languages", "switch", "localized",
                   "emit", "sanity", "done"} =>
            requested = ChildPaths(Len(NetworkConnections))
        /\ pc = "failed" =>
            \E n \in 0..Len(NetworkConnections) : requested = ChildPaths(n)
        /\ \A i \in DOMAIN ChildGets :
            ChildGets[i].outcome = "ok" => Get(data, ChildGets[i].path) = ChildGets[i].res

\* the list with an empty id and an entry without id: two children were
\* requested and recorded
C13_Witness ==
    /\ pc = "done"
    /\ Len(NetworkConnections) = 4
    /\ Len(ChildGets) = 2
    /\ \A i \in DOMAIN ChildGets : Has(data, ChildGets[i].path)

\* the volume_for GETs, in the order of the requests
VolumeGets ==
    SelectSeq(log, LAMBDA r :
        /\ r.stage = "special"
        /\ Len(r.path) >= Len(volumePath)
        /\ SubSeq(r.path, 1, Len(volumePath)) = volumePath)

\* the answers the bulk pass got for the storage parameters
ParamsAnswers ==
    SelectSeq(log, LAMBDA r :
        r.stage = "bulk" /\ r.path = storageParamsPath /\ r.outcome = "ok")

\* the volume_for paths of the recorded parameters: one per mount point of
\* the answer, in its order, then the one of the empty mount point; none when
\* there are no parameters or no mountPoints
VolumePaths ==
    IF ParamsAnswers = << >> THEN << >>
    ELSE LET params == ParamsAnswers[Len(ParamsAnswers)].res
         IN  IF params.t = "params" /\ params.hasMountPoints
             THEN [i \in 1..(Len(params.mountPoints) + 1) |->
                     volumePath \o <<"?", "m", "o", "u", "n", "t", "_", "p", "a", "t", "h", "=">>
                     \o (IF i <= Len(params.mountPoints)
                         THEN EncodeURIComponent(params.mountPoints[i])
                         ELSE << >>)]
             ELSE << >>

\* C14: for recorded storage parameters whose mountPoints list has n entries
\* the special-paths pass issues n+1 volume_for GETs: one per mount point in
\* the order of the list, the mount point encoded in mount_path, then one with
\* an empty mount_path; each answer is recorded under its path with the query
C14_VolumeRequests ==
    LET requested == [i \in DOMAIN VolumeGets |-> VolumeGets[i].path]
    IN  /\ pc = "volumes" =>
            requested = SubSeq(VolumePaths, 1,
                               IF inflight = << >> THEN mountIdx - 1 ELSE mountIdx)
        /\ pc \in {"extra", "languages", "switch", "localized", "emit", "sanity", "done"} =>
            requested = VolumePaths
        /\ pc = "failed" =>
            \E n \in 0..Len(VolumePaths) : requested = SubSeq(VolumePaths, 1, n)
        /\ \A i \in DOMAIN VolumeGets :
            VolumeGets[i].outcome = "ok" => Get(data, VolumeGets[i].path) = VolumeGets[i].res

\* the mount points "/" and "/home": three requests, the last with an empty
\* mount_path
C14_Witness ==
    /\ pc = "done"
    /\ Len(VolumeGets) = 3
    /\ VolumeGets[1].path = volumePath \o <<"?", "m", "o", "u", "n", "t", "_", "p", "a", "t", "h", "=", "%", "2", "F">>
    /\ VolumeGets[2].path = volumePath \o <<"?", "m", "o", "u", "n", "t", "_", "p", "a", "t", "h", "=", "%", "2", "F", "h", "o", "m", "e">>
    /\ VolumeGets[3].path = volumePath \o <<"?", "m", "o", "u", "n", "t", "_", "p", "a", "t", "h", "=">>
    /\ \A i \in DOMAIN VolumeGets : Has(data, VolumeGets[i].path)

\* a loaded document declares the template with a GET operation
DeclaredWithGet(tmpl) ==
    \E d \in Declared : DeclaredName(d) = tmpl /\ files[d[1]].paths[d[2]].get

\* the GETs of a run
Gets ==
    {i \in DOMAIN log : log[i].method = "GET"}

\* C15, as the specification states it: every template a GET is issued for
\* is declared with a GET operation by a loaded document or is in the extra
\* list; no path of the localized list is requested otherwise
C15_OnlyDeclaredOrExtra ==
    \A i \in Gets : DeclaredWithGet(log[i].tmpl) \/ Includes(extra, log[i].tmpl)

\* C15, amended: every GET of a run is one of: a probe of zfcp or dasd; in
\* the bulk pass, a template that a loaded document declares with a GET
\* operation; in the special-paths pass, the child path of a recorded
\* connection or the volume_for path of a recorded mount point; in the extra
\* pass, a path of the extra list; in the localized pass, /languages.json or
\* a path of the localized list, which is requested for every language
\* whether or not a document declares it
C15_SourcesOfGets ==
    \A i \in Gets :
        CASE log[i].stage = "zfcp" -> log[i].path = SupportedPath(zfcpStorage)
          [] log[i].stage = "dasd" -> log[i].path = SupportedPath(dasdStorage)
          [] log[i].stage = "bulk" ->
                \E d \in Reached :
                    DeclaredName(d) = log[i].tmpl /\ files[d[1]].paths[d[2]].get
          [] log[i].stage = "special" ->
                \/ \E n \in DOMAIN NetworkConnections :
                    /\ NetworkConnections[n].e = "obj"
                    /\ log[i].path = connectionPath \o <<"/">> \o NetworkConnections[n].id
                \/ \E n \in DOMAIN VolumePaths : log[i].path = VolumePaths[n]
          [] log[i].stage = "extra" -> Includes(extra, log[i].tmpl)
          [] log[i].stage = "localized" ->
                log[i].tmpl = languagesPath \/ Includes(localized, log[i].tmpl)
          [] OTHER -> FALSE

\* no document is loaded and the paths of the localized list are downloaded
C15_Witness ==
    /\ files = << >>
    /\ pc = "done"
    /\ \A k \in DOMAIN localized :
        \E i \in Gets : log[i].stage = "localized" /\ log[i].tmpl = localized[k]
                        /\ log[i].outcome = "ok"

\* C16: the sanity check is advisory: it runs after the data were emitted
\* and, whatever the data (also without /api/software/config or with a null
\* one), a run that has emitted its data does not end in Failed and does not
\* exit with an error
C16_SanityAdvisory ==
    /\ pc \in {"sanity", "done"} => ~NothingEmitted
    /\ ~NothingEmitted => (pc # "failed" /\ ~ExitedWithError)
    /\ pc = "done" => exitStatus = ExitSuccess

\* the GETs apiDownload() makes in the bulk and the extra pass
DownloadGets ==
    {i \in Gets : log[i].stage \in {"bulk", "extra"}}

\* C17: in the bulk and the extra pass the GET is issued at the template
\* without one trailing slash and its answer is recorded under exactly that
\* path, never under the template with the slash: a template and its variant
\* with a trailing slash share one key
C17_TrimmedKey ==
    \A i \in DownloadGets :
        LET tmpl == log[i].tmpl
            trimmed == IF tmpl # << >> /\ tmpl[Len(tmpl)] = "/"
                       THEN [k \in 1..(Len(tmpl) - 1) |-> tmpl[k]]
                       ELSE tmpl
        IN  /\ log[i].path = trimmed
            /\ log[i].outcome = "ok" =>
                /\ Has(data, trimmed)
                /\ trimmed # tmpl => ~Has(data, tmpl)
                /\ Cardinality({k \in DOMAIN data : data[k].k = trimmed}) = 1

\* a template and its variant with a trailing slash were both downloaded:
\* the data hold the key without the slash only
C17_Witness ==
    /\ pc = "done"
    /\ \E i, j \in DownloadGets :
        /\ log[i].tmpl = l10nConfigPath
        /\ log[j].tmpl = l10nConfigPath \o <<"/">>
        /\ log[i].outcome = "ok" /\ log[j].outcome = "ok"
        /\ log[i].path = log[j].path
    /\ Has(data, l10nConfigPath)
    /\ ~Has(data, l10nConfigPath \o <<"/">>)

\* the GETs answered 200 with a content type that is not JSON: api()
\* resolved to null
NullAnswers ==
    {i \in DownloadGets : log[i].outcome = "ok" /\ log[i].res = Null}

FirstHyphen(tag) ==
    IF \E i \in DOMAIN tag : tag[i] = "-"
    THEN CHOOSE i \in DOMAIN tag : tag[i] = "-" /\ \A j \in 1..(i - 1) : tag[j] # "-"
    ELSE 0

\* an identifier <lang>_<REGION>.UTF-8 with a language and a region
WellFormed(locale) ==
    \E lang, region \in {SubSeq(locale, a, b) : a, b \in DOMAIN locale} :
        /\ locale = lang \o <<"_">> \o region \o <<".", "U", "T", "F", "-", "8">>
        /\ \A k \in DOMAIN lang : lang[k] \notin {"_", "-", "."}
        /\ region # <<"u", "n", "d", "e", "f", "i", "n", "e", "d">>

\* C19: the locale sent in the PATCH of a language is the tag split at its
\* first hyphen only, joined as <lang>_<REGION>.UTF-8: the region of a tag
\* with more hyphens is all that follows the first one, and the identifier
\* is well formed for every tag of the answer (stated for the tags that are
\* not empty)
C19_LocaleOfTag ==
    \A i \in DOMAIN log :
        (log[i].method = "PATCH" /\ log[i].language \notin {NoLanguage, << << >> >>}) =>
            LET tag == log[i].language[1]
                h == FirstHyphen(tag)
            IN  /\ h > 0 =>
                    log[i].body = SubSeq(tag, 1, h - 1) \o <<"_">>
                                  \o SubSeq(tag, h + 1, Len(tag))
                                  \o <<".", "U", "T", "F", "-", "8">>
                /\ WellFormed(log[i].body)

\* C20: when the recorded parent is absent, null or malformed the
\* special-paths pass fails closed: no child is requested for absent or null
\* connections, none for a null entry of the list, no volume_for for
\* parameters that are absent, null or without mountPoints, and the pass does
\* not fail on the parent
C20_SpecialFailsClosed ==
    /\ Get(data, connectionPath) \in {Undefined, Null} => ChildGets = << >>
    /\ Get(data, storageParamsPath) \in {Undefined, Null} => VolumeGets = << >>
    /\ (Get(data, storageParamsPath) \notin {Undefined, Null}
            /\ ~Get(data, storageParamsPath).hasMountPoints) => VolumeGets = << >>
    /\ (\E n \in DOMAIN NetworkConnections : NetworkConnections[n].e = "null") =>
            ~(pc = "failed" /\ Stage(failedFrom) = "special" /\ failure = "type")

\* the answered requests whose answer the run stores, in the order of the
\* requests: every GET but the one of /languages.json
Stored ==
    SelectSeq(log, LAMBDA r :
        /\ r.method = "GET"
        /\ r.outcome = "ok"
        /\ ~(r.stage = "localized" /\ r.language = NoLanguage))

\* the key of the top level an answer is stored under: the language tag for
\* a localized answer of a tag that is not empty, the path otherwise
TopKey(r) ==
    IF r.language \notin {NoLanguage, << << >> >>} THEN r.language[1] ELSE r.path

\* a sequence without the repetitions of its elements
RECURSIVE FirstOccurrences(_)
FirstOccurrences(s) ==
    IF s = << >> THEN << >>
    ELSE LET init == FirstOccurrences(SubSeq(s, 1, Len(s) - 1))
             last == s[Len(s)]
         IN  IF \E i \in DOMAIN init : init[i] = last THEN init ELSE Append(init, last)

\* the keys of the data are in the order of the first request stored under
\* each, at the top level and below every language, and the document written
\* has the keys of the top level in that order
KeysInRequestOrder ==
    /\ Keys(data) = FirstOccurrences([i \in DOMAIN Stored |-> TopKey(Stored[i])])
    /\ \A k \in DOMAIN data :
        data[k].v.t = "obj" =>
            LET below == SelectSeq(Stored, LAMBDA r : r.language = <<data[k].k>>)
            IN  Keys(data[k].v.entries) = FirstOccurrences([i \in DOMAIN below |-> below[i].path])
    /\ \A result \in {outFile[i] : i \in DOMAIN outFile} \cup {stdout[i] : i \in DOMAIN stdout} :
        LET top == SelectSeq(result, LAMBDA line : line.depth = 1)
        IN  [i \in DOMAIN top |-> top[i].key] = Keys(data)

\* a step that stores an answer assigns it to its key: the key holds the
\* answer whatever it held before, a key that exists keeps its place, a new
\* key goes last, and no other key of that level changes
WriteOverwrites ==
    LET r == log'[Len(log')]
    IN  (/\ Len(log') = Len(log)
         /\ log' # log
         /\ r.method = "GET"
         /\ r.outcome = "ok"
         /\ ~(r.stage = "localized" /\ r.language = NoLanguage)) =>
            IF r.language \in {NoLanguage, << << >> >>}
            THEN /\ Get(data', r.path) = r.res
                 /\ Keys(data') = IF Has(data, r.path) THEN Keys(data)
                                  ELSE Append(Keys(data), r.path)
                 /\ \A k \in DOMAIN data : data[k].k # r.path => data'[k] = data[k]
            ELSE LET tag == r.language[1]
                     before == IF Has(data, tag) THEN Get(data, tag).entries ELSE << >>
                     after == Get(data', tag).entries
                 IN  /\ Get(after, r.path) = r.res
                     /\ Keys(after) = IF Has(before, r.path) THEN Keys(before)
                                      ELSE Append(Keys(before), r.path)
                     /\ \A k \in DOMAIN before : before[k].k # r.path => after[k] = before[k]
                     /\ \A k \in DOMAIN data : data[k].k # tag => data'[k] = data[k]

\* C21: writes to the data are last-write-wins for each key of the top level
\* and of each language, and the keys of the document written are in the
\* order in which the requests were issued (a key written again keeps the
\* place of its first request); a probe key requested again in the bulk pass
\* holds the later answer
C21_LastWriteWins ==
    []KeysInRequestOrder /\ [][WriteOverwrites]_vars

\* zfcp is supported and the bulk pass got the answer false for the probe
\* path: the first key of the document holds the later answer
C21_Witness ==
    /\ pc = "done"
    /\ zfcp = Bool(TRUE)
    /\ data[1].k = SupportedPath(zfcpStorage)
    /\ data[1].v = Bool(FALSE)
    /\ \E i \in StageRequests("bulk") :
        log[i].path = SupportedPath(zfcpStorage) /\ log[i].res = Bool(FALSE)

\* the run has ended: readOpenAPI() returned or the process exited with an
\* error
Ended ==
    pc \in {"done", "failed"}

\* the only step of a run that awaits a request is the answer to it
BlockedUntilAnswered ==
    inflight # << >> =>
        /\ inflight' = << >>
        /\ Len(log') = Len(log)
        /\ log'[Len(log)].outcome # "pending"

\* C22: when every request is answered or fails, the run ends, done or
\* failed; while a request is not answered the run takes no other step and
\* nothing is written to the output
C22_Terminates ==
    /\ <>Ended
    /\ [](inflight # << >> => NothingEmitted /\ ~Ended)
    /\ [][BlockedUntilAnswered]_vars

\* the run awaits the answer to a localized request, the last stage that
\* sends requests, and nothing is written yet
C22_Witness ==
    /\ inflight # << >>
    /\ inflight[1].stage = "localized"
    /\ inflight[1].method = "GET"
    /\ inflight[1].language # NoLanguage
    /\ NothingEmitted

\* C23: the special pass only adds keys: every key of the top level holds
\* the last answer stored under it, and so the mountPoints under
\* /api/storage/product/params are the list the server returned, with no
\* empty string appended
C23_SpecialOnlyAdds ==
    \A i \in DOMAIN Stored :
        LET r == Stored[i]
        IN  (/\ r.language = NoLanguage
             /\ ~\E j \in DOMAIN Stored : j > i /\ TopKey(Stored[j]) = r.path) =>
                Get(data, r.path) = r.res

\* the localized pass is over: /languages.json is answered and every
\* localized path of every language is downloaded
LocalizedCompleted ==
    /\ \E i \in DOMAIN log :
        /\ log[i].path = languagesPath
        /\ log[i].language = NoLanguage
        /\ log[i].outcome = "ok"
    /\ langIdx > Len(languages)
    /\ \A k \in DOMAIN languages : \A p \in DOMAIN localized :
        \E i \in DOMAIN log :
            /\ log[i].language = <<languages[k]>>
            /\ log[i].tmpl = localized[p]
            /\ log[i].outcome = "ok"
    /\ inflight = << >>

Patches ==
    {i \in DOMAIN log : log[i].method = "PATCH"}

AcceptedPatches ==
    {i \in Patches : log[i].outcome = "ok"}

\* C25: the run never restores the UI locale of the server. While every PATCH
\* sent is accepted the locale is the one of the last PATCH; a run that ends
\* after at least one language leaves the locale derived from the last
\* language tag, whatever the locale was before; when /languages.json has no
\* language (an empty object or null) no PATCH is sent and the locale is the
\* one the server had before the run
C25_LocaleNotRestored ==
    /\ (AcceptedPatches # {} /\ \A i \in Patches : log[i].outcome \in {"ok", "pending"}) =>
        LET last == CHOOSE i \in AcceptedPatches : \A j \in AcceptedPatches : j <= i
        IN  uiLocale = log[last].body
    /\ (Patches = {} /\ log # << >>) => uiLocale = log[1].locale
    /\ pc = "done" =>
        IF languages # << >>
        THEN /\ uiLocale = UiLanguage(languages[Len(languages)])
             /\ Cardinality(AcceptedPatches) = Len(languages)
        ELSE Patches = {}

\* the run is done after two languages: the server is left with the locale
\* of the second one, not the one it had at the login
C25_Witness ==
    /\ pc = "done"
    /\ Len(languages) = 2
    /\ uiLocale = UiLanguage(languages[2])
    /\ uiLocale # log[1].locale
    /\ uiLocale # UiLanguage(languages[1])

====
